---------------------------- MODULE Spec2Model ----------------------------
(***************************************************************************)
(* A model of the RSS feed plugin of Vinted-Notifications:                 *)
(*   rss_feed_plugin/rss_db.py   the item store (SQLite table rss_items)   *)
(*   rss_feed_plugin/rss_feed.py the queue consumer, the retention         *)
(*                               scheduler and the feed renderer           *)
(*                                                                         *)
(* Every store operation opens its own connection, so the callers are      *)
(* modelled as processes that share the committed table `rows`, the        *)
(* AUTOINCREMENT counter `seq` and SQLite's single write lock `wlock`.     *)
(* A SELECT is one atomic step (it runs under a SHARED lock that no commit *)
(* can cross); a write is two steps, the statement (which takes the write  *)
(* lock and leaves its change pending) and the commit.                     *)
(*                                                                         *)
(* published_date is always an aware UTC datetime in this program          *)
(* (rss_feed.py:98), stored as ISO text of one fixed shape, whose text     *)
(* order is the order of the instants; it is modelled as an integer.       *)
(***************************************************************************)
EXTENDS Integers, Sequences, FiniteSets, TLC

\* ------------------------------------------------------------- bounds
NumAdders == 2
NumUrls == 2
MaxTime == 2
MaxId == 3
MaxLimit == 2
MaxChunks == 4
MaxEvents == 2

\* ------------------------------------------------------------ constants
\* max_items when the configuration cannot be read
DefaultMaxItems == 100
\* cleanup_old_rss_items(max_items * 10)
BufferFactor == 10

\* ------------------------------------------------- processes and inputs
Adders == 1..NumAdders
Trimmer == NumAdders + 1
Reader == NumAdders + 2
Procs == 1..(NumAdders + 2)
NoProc == 0

Urls == 1..NumUrls
Times == 1..MaxTime
Limits == 0..MaxLimit

\* What db.get_parameter("rss_max_items") may hold: a number, or nothing
\* that int() accepts.
Unavailable == -1
ConfigValues == Limits \cup {Unavailable}

\* The characters of a content: '🆕 Title : ' is MARKER, one character per
\* element ("NEW" stands for the character U+1F195).
MARKER == <<"NEW", " ", "T", "i", "t", "l", "e", " ", ":", " ">>
DEFAULT_TITLE == <<"N", "e", "w", " ", "V", "i", "n", "t", "e", "d", " ", "I", "t", "e", "m">>
\* (title, content) pairs handed to add_rss_item
Payloads == {<<<<"S", "h", "o", "e", "s">>, <<"c", "1">>>>,
             <<DEFAULT_TITLE, <<"c", "2">>>>}
Chunks == {MARKER, <<"S", "h", "o", "e", "s">>, <<"\n">>, <<"x">>, <<"NEW">>}
RECURSIVE ContentsOf(_)
ContentsOf(k) ==
    IF k = 0 THEN {<<>>}
    ELSE ContentsOf(k - 1) \cup {c \o d : c \in ContentsOf(k - 1), d \in Chunks}
Contents == ContentsOf(MaxChunks)

Min(a, b) == IF a <= b THEN a ELSE b

VARIABLES
    rows,       \* the committed contents of table rss_items
    seq,        \* sqlite_sequence: the largest id ever committed
    wlock,      \* the process whose connection holds the write lock
    pc,         \* pc[p]: where process p is in its operation
    call,       \* call[p]: the operation p runs and its arguments
    pending,    \* pending[p]: the uncommitted change of p's transaction
    ret,        \* ret[p]: what p's operation returned
    exc,        \* exc[p]: the exception p's operation caught
    ev_content, \* the content of the event add_item_to_feed was given
    ev_title,   \* the title add_item_to_feed derived from it
    pre,        \* history: the table when the running operation was called
    prev,       \* history: the operation that ran before this one
    queue,      \* self.queue: the events put and not yet taken
    cpc,        \* where run_check_queue is in its loop
    processed,  \* run_check_queue's counter of this iteration
    taken,      \* the event run_check_queue took from the queue
    spc,        \* where periodic_cleanup is in its loop
    max_items,  \* periodic_cleanup's max_items
    config,     \* what db.get_parameter("rss_max_items") holds
    hist        \* history of the two loops (see NoHist)

store == <<rows, seq, wlock, pc, call, pending, ret, exc>>
event == <<ev_content, ev_title>>
loops == <<queue, cpc, processed, taken, spc, max_items, config, hist>>
vars == <<store, event, pre, prev, loops>>

\* ------------------------------------------------------ the table
Row(id, title, content, url, published_date) ==
    [id |-> id, title |-> title, content |-> content, url |-> url,
     published_date |-> published_date]

\* The UNIQUE constraint on url, as INSERT OR IGNORE consults it.
UrlExists(table, url) == \E r \in table : r.url = url

\* (mutant) a store that remembers the urls of the rows it deleted
InsertUnlessSeen(table, lastId, title, content, url, published_date) ==
    IF UrlExists(table, url) \/ UrlExists(hist.evicted, url)
    THEN {}
    ELSE {Row(lastId + 1, title, content, url, published_date)}

\* (mutant) the insert without the UNIQUE constraint on url
InsertAlways(table, lastId, title, content, url, published_date) ==
    {Row(lastId + 1, title, content, url, published_date)}

\* INSERT OR IGNORE INTO rss_items ...: the rows the statement adds.
InsertOrIgnore(table, lastId, title, content, url, published_date) ==
    IF UrlExists(table, url)
    THEN {}
    ELSE {Row(lastId + 1, title, content, url, published_date)}

\* ORDER BY published_date ASC: the orders in which the table may be
\* delivered (rows of equal published_date come in an order SQLite chooses).
RECURSIVE OrderAsc(_)
OrderAsc(S) ==
    IF S = {} THEN {<<>>}
    ELSE UNION { {<<m>> \o s : s \in OrderAsc(S \ {m})} :
                 m \in {x \in S : \A y \in S : x.published_date <= y.published_date} }

\* (mutant) the ordering the wrong way round
OrderWrongWay(S) == OrderAsc(S)

\* ORDER BY published_date DESC
RECURSIVE OrderDesc(_)
OrderDesc(S) ==
    IF S = {} THEN {<<>>}
    ELSE UNION { {<<m>> \o s : s \in OrderDesc(S \ {m})} :
                 m \in {x \in S : \A y \in S : y.published_date <= x.published_date} }

\* LIMIT n: a negative n means no limit in SQLite.
Limit(s, n) == IF n < 0 THEN s ELSE SubSeq(s, 1, Min(n, Len(s)))

\* SELECT title, content, url, published_date: the columns of one row.
Columns(r) == <<r.title, r.content, r.url, r.published_date>>

\* SELECT ... FROM rss_items ORDER BY published_date DESC LIMIT ?
SelectItems(table, limit) ==
    { [i \in 1..Len(Limit(s, limit)) |-> Columns(s[i])] : s \in OrderDesc(table) }

\* SELECT id FROM rss_items ORDER BY published_date ASC LIMIT ?
OldestIds(table, n) ==
    { {Limit(s, n)[i].id : i \in 1..Len(Limit(s, n))} : s \in OrderAsc(table) }

\* (mutant) the deletion of the newest rows instead of the oldest
DeleteNewest(table, n) ==
    { {Limit(s, n)[i] : i \in 1..Len(Limit(s, n))} : s \in OrderDesc(table) }

\* DELETE FROM rss_items WHERE id IN (...): the rows the statement removes.
DeleteOldest(table, n) ==
    { {r \in table : r.id \in ids} : ids \in OldestIds(table, n) }

\* ------------------------------------------------------ initial state
NoCall == [op |-> "none", title |-> <<>>, content |-> <<>>, url |-> 0,
           published_date |-> 0, n |-> 0, total |-> 0,
           badhost |-> FALSE, raised |-> {}]
NoTitle == <<"?">>
NoChange == [ins |-> {}, del |-> {}]
NoPrev == [op |-> "none", url |-> 0, ok |-> FALSE]
NoItem == [content |-> <<>>, url |-> 0, fields |-> 0]
\* What a run remembers of the loops:
\*   nput     how many events were put on the queue
\*   put      the urls of the well-formed events put on the queue
\*   drained  whether this iteration of the consumer took an event
\*   slept    whether the scheduler slept since its last trim
\*   cfgs     the values the configuration held since the scheduler woke,
\*            until it calls trim
\*   evicted  the id, url and published_date of the rows a trim deleted
NoHist == [nput |-> 0, put |-> {}, drained |-> FALSE, slept |-> FALSE,
           cfgs |-> {}, evicted |-> {}]
\* rss_max_items as the configuration holds it: text that int() accepts
\* (ok, with its value), or anything else.
NoConfig == [ok |-> FALSE, value |-> 0]

\* The two loops before their threads have run.
LoopsInit ==
    /\ queue = <<>>
    /\ cpc = "start"
    /\ processed = 0
    /\ taken = NoItem
    /\ spc = "sleep"
    /\ max_items = 0
    /\ config = NoConfig
    /\ hist = NoHist

Init ==
    /\ rows = {}
    /\ seq = 0
    /\ wlock = NoProc
    /\ pc = [p \in Procs |-> "idle"]
    /\ call = [p \in Procs |-> NoCall]
    /\ pending = [p \in Procs |-> NoChange]
    /\ ret = [p \in Procs |-> FALSE]
    /\ exc = [p \in Procs |-> "none"]
    /\ ev_content = <<>>
    /\ ev_title = NoTitle
    /\ pre = {}
    /\ prev = NoPrev
    /\ LoopsInit

\* --------------------------------------------------- add_rss_item
\* add_rss_item returns: its other arguments are gone with its frame, the
\* url is kept to say which call returned.
AddReturned(p) ==
    [call EXCEPT ![p] = [NoCall EXCEPT !.op = "add", !.url = call[p].url]]

\* add_rss_item(title, content, url, published_date) is called.
AddCall(p) ==
    /\ p \in Adders
    /\ pc[p] = "idle"
    /\ seq < MaxId
    /\ \E pl \in Payloads, u \in Urls, t \in Times :
          call' = [call EXCEPT ![p] = [NoCall EXCEPT !.op = "add", !.title = pl[1],
                                        !.content = pl[2], !.url = u,
                                        !.published_date = t]]
    /\ pc' = [pc EXCEPT ![p] = "add_execute"]
    /\ UNCHANGED <<rows, seq, wlock, pending, ret, exc>>

\* (mutant) check-then-insert: the url is looked up without the write lock,
\* and the insert follows in the commit step
AddExecuteNoLock(p) ==
    /\ pc[p] = "add_execute"
    /\ LET ins == InsertOrIgnore(rows, seq, call[p].title, call[p].content,
                                 call[p].url, call[p].published_date)
       IN IF ins # {}
          THEN /\ pending' = [pending EXCEPT ![p] = [ins |-> ins, del |-> {}]]
               /\ pc' = [pc EXCEPT ![p] = "add_commit"]
               /\ UNCHANGED <<ret, call>>
          ELSE /\ ret' = [ret EXCEPT ![p] = FALSE]
               /\ pc' = [pc EXCEPT ![p] = "returned"]
               /\ call' = [call EXCEPT ![p] = [NoCall EXCEPT !.op = "add",
                                                  !.url = call[p].url]]
               /\ UNCHANGED pending
    /\ UNCHANGED <<rows, seq, wlock, exc>>

\* cursor.execute(INSERT OR IGNORE ...), lines 61-72: the statement waits for
\* the write lock; rowcount > 0 goes on to the commit, rowcount = 0 returns
\* False and the connection is closed, which ends its transaction.
AddExecute(p) ==
    /\ pc[p] = "add_execute"
    /\ wlock = NoProc
    /\ LET ins == InsertOrIgnore(rows, seq, call[p].title, call[p].content,
                                 call[p].url, call[p].published_date)
       IN IF ins # {}
          THEN /\ pending' = [pending EXCEPT ![p] = [ins |-> ins, del |-> {}]]
               /\ wlock' = p
               /\ pc' = [pc EXCEPT ![p] = "add_commit"]
               /\ UNCHANGED <<ret, call>>
          ELSE /\ ret' = [ret EXCEPT ![p] = FALSE]
               /\ pc' = [pc EXCEPT ![p] = "returned"]
               /\ call' = AddReturned(p)
               /\ UNCHANGED <<pending, wlock>>
    /\ UNCHANGED <<rows, seq, exc>>

\* conn.commit(); return True, lines 67-69
AddCommit(p) ==
    /\ pc[p] = "add_commit"
    /\ rows' = rows \cup pending[p].ins
    /\ seq' = seq + 1
    /\ wlock' = NoProc
    /\ pending' = [pending EXCEPT ![p] = NoChange]
    /\ ret' = [ret EXCEPT ![p] = TRUE]
    /\ pc' = [pc EXCEPT ![p] = "returned"]
    /\ call' = AddReturned(p)
    /\ UNCHANGED exc

\* (mutant) a failure that leaves the pending insert in the table
AddRaiseCommitted(p) ==
    /\ pc[p] \in {"add_execute", "add_commit"}
    /\ exc' = [exc EXCEPT ![p] = "io"]
    /\ rows' = rows \cup pending[p].ins
    /\ pending' = [pending EXCEPT ![p] = NoChange]
    /\ wlock' = IF wlock = p THEN NoProc ELSE wlock
    /\ ret' = [ret EXCEPT ![p] = FALSE]
    /\ pc' = [pc EXCEPT ![p] = "returned"]
    /\ call' = [call EXCEPT ![p] = [NoCall EXCEPT !.op = "add", !.url = call[p].url]]
    /\ UNCHANGED seq

\* except Exception: return False, lines 74-79. The connection, the statement
\* or the commit raised: an I/O failure ("io"), or "database is locked" when
\* another connection kept the write lock past the busy timeout ("locked").
\* Closing the connection rolls the open transaction back.
AddRaise(p) ==
    /\ pc[p] \in {"add_execute", "add_commit"}
    /\ \E cause \in {"io", "locked"} :
          /\ cause = "locked" => (pc[p] = "add_execute" /\ wlock # NoProc)
          /\ exc' = [exc EXCEPT ![p] = cause]
    /\ pending' = [pending EXCEPT ![p] = NoChange]
    /\ wlock' = IF wlock = p THEN NoProc ELSE wlock
    /\ ret' = [ret EXCEPT ![p] = FALSE]
    /\ pc' = [pc EXCEPT ![p] = "returned"]
    /\ call' = AddReturned(p)
    /\ UNCHANGED <<rows, seq>>

\* ------------------------------------------------ cleanup_old_rss_items
\* cleanup_old_rss_items(max_items) is called.
TrimCall(p) ==
    /\ p = Trimmer
    /\ pc[p] = "idle"
    /\ \E m \in Limits :
          call' = [call EXCEPT ![p] = [NoCall EXCEPT !.op = "trim", !.n = m]]
    /\ pc' = [pc EXCEPT ![p] = "trim_count"]
    /\ UNCHANGED <<rows, seq, wlock, pending, ret, exc>>

\* (mutant) the count without the test total_items > max_items
TrimCountNoTest(p) ==
    /\ pc[p] = "trim_count"
    /\ call' = [call EXCEPT ![p].total = Cardinality(rows)]
    /\ pc' = [pc EXCEPT ![p] = "trim_delete"]
    /\ UNCHANGED <<rows, seq, wlock, pending, ret, exc>>

\* SELECT COUNT(*) and the test total_items > max_items, lines 112-115. The
\* SELECT runs outside any transaction: its lock is gone when it has been read.
TrimCount(p) ==
    /\ pc[p] = "trim_count"
    /\ call' = [call EXCEPT ![p].total = Cardinality(rows)]
    /\ pc' = [pc EXCEPT ![p] =
                 IF Cardinality(rows) > call[p].n THEN "trim_delete" ELSE "returned"]
    /\ UNCHANGED <<rows, seq, wlock, pending, ret, exc>>

\* items_to_delete = total_items - max_items; cursor.execute(DELETE ...),
\* lines 117-125: the statement waits for the write lock and reads the table
\* as it is now.
TrimDelete(p) ==
    /\ pc[p] = "trim_delete"
    /\ wlock = NoProc
    /\ \E del \in DeleteOldest(rows, call[p].total - call[p].n) :
          pending' = [pending EXCEPT ![p] = [ins |-> {}, del |-> del]]
    /\ wlock' = p
    /\ pc' = [pc EXCEPT ![p] = "trim_commit"]
    /\ UNCHANGED <<rows, seq, call, ret, exc>>

\* conn.commit(), line 127
TrimCommit(p) ==
    /\ pc[p] = "trim_commit"
    /\ rows' = rows \ pending[p].del
    /\ wlock' = NoProc
    /\ pending' = [pending EXCEPT ![p] = NoChange]
    /\ pc' = [pc EXCEPT ![p] = "returned"]
    /\ UNCHANGED <<seq, call, ret, exc>>

\* except Exception: (logged), lines 130-134
TrimRaise(p) ==
    /\ pc[p] \in {"trim_count", "trim_delete", "trim_commit"}
    /\ \E cause \in {"io", "locked"} :
          /\ cause = "locked" => (pc[p] = "trim_delete" /\ wlock # NoProc)
          /\ exc' = [exc EXCEPT ![p] = cause]
    /\ pending' = [pending EXCEPT ![p] = NoChange]
    /\ wlock' = IF wlock = p THEN NoProc ELSE wlock
    /\ pc' = [pc EXCEPT ![p] = "returned"]
    /\ UNCHANGED <<rows, seq, call, ret>>

\* ------------------------------------ get_rss_items, get_rss_items_count
\* get_rss_items(limit), lines 81-95: the call, the SELECT and the return of
\* cursor.fetchall() touch the table once, in the SELECT.
ListItems(p) ==
    /\ p = Reader
    /\ pc[p] = "idle"
    /\ \E n \in Limits :
          /\ call' = [call EXCEPT ![p] = [NoCall EXCEPT !.op = "list", !.n = n]]
          /\ \E items \in SelectItems(rows, n) : ret' = [ret EXCEPT ![p] = items]
    /\ pc' = [pc EXCEPT ![p] = "returned"]
    /\ UNCHANGED <<rows, seq, wlock, pending, exc>>

\* get_rss_items_count(), lines 136-143
CountItems(p) ==
    /\ p = Reader
    /\ pc[p] = "idle"
    /\ call' = [call EXCEPT ![p] = [NoCall EXCEPT !.op = "count"]]
    /\ ret' = [ret EXCEPT ![p] = Cardinality(rows)]
    /\ pc' = [pc EXCEPT ![p] = "returned"]
    /\ UNCHANGED <<rows, seq, wlock, pending, exc>>

\* except Exception: return [] (lines 97-99), return 0 (lines 144-146)
ReadRaise(p) ==
    /\ p = Reader
    /\ pc[p] = "idle"
    /\ \E op \in {"list", "count"}, n \in Limits :
          /\ op = "count" => n = 0
          /\ call' = [call EXCEPT ![p] = [NoCall EXCEPT !.op = op, !.n = n]]
          /\ ret' = [ret EXCEPT ![p] = IF op = "list" THEN <<>> ELSE 0]
    /\ exc' = [exc EXCEPT ![p] = "io"]
    /\ pc' = [pc EXCEPT ![p] = "returned"]
    /\ UNCHANGED <<rows, seq, wlock, pending>>

\* ------------------------------------------------- RSSFeed.serve_rss
\* fe.id(url); fe.title(title); fe.link(href=url);
\* fe.description(html.escape(content)); fe.published(published_date)
HtmlEscape(text) == <<"escaped", text>>
\* (mutant) the entry with the content where the title belongs
EntryMixedUp(item) ==
    [id |-> item[3], title |-> item[2], link |-> item[3],
     description |-> HtmlEscape(item[2]), published |-> item[4]]
Entry(item) ==
    [id |-> item[3], title |-> item[1], link |-> item[3],
     description |-> HtmlEscape(item[2]), published |-> item[4]]
Entries(items) == [i \in 1..Len(items) |-> Entry(items[i])]

\* What the client of GET / receives.
Response(status, entries, description) ==
    [status |-> status, entries |-> entries, description |-> description]

\* max_items = int(db.get_parameter("rss_max_items")), or 100 when that raises
MaxItems(cfg) == IF cfg = Unavailable THEN DefaultMaxItems ELSE cfg

\* GET / arrives; reading the host of this request raises, or does not.
ServeCall(p) ==
    /\ p = Reader
    /\ pc[p] = "idle"
    /\ \E bad \in BOOLEAN :
          call' = [call EXCEPT ![p] = [NoCall EXCEPT !.op = "serve", !.badhost = bad]]
    /\ pc' = [pc EXCEPT ![p] = "serve_head"]
    /\ UNCHANGED <<rows, seq, wlock, pending, ret, exc>>

\* fg = FeedGenerator() ... fg.link(href=request.host_url.rstrip('/')),
\* lines 110-115
ServeHead(p) ==
    /\ pc[p] = "serve_head"
    /\ IF call[p].badhost
       THEN /\ call' = [call EXCEPT ![p].raised = @ \cup {"host"}]
            /\ pc' = [pc EXCEPT ![p] = "serve_except"]
       ELSE /\ pc' = [pc EXCEPT ![p] = "serve_items"]
            /\ UNCHANGED call
    /\ UNCHANGED <<rows, seq, wlock, pending, ret, exc>>

\* The configuration is read (a failure gives the default) and
\* items = get_rss_items(limit=max_items), lines 118-122; get_rss_items
\* turns a failure of the store into [].
ServeItems(p) ==
    /\ pc[p] = "serve_items"
    /\ \E cfg \in ConfigValues :
          /\ \/ /\ \E items \in SelectItems(rows, MaxItems(cfg)) :
                      ret' = [ret EXCEPT ![p] = items]
                /\ call' = [call EXCEPT ![p].n = MaxItems(cfg),
                               ![p].raised = IF cfg = Unavailable THEN {"config"} ELSE {}]
                /\ UNCHANGED exc
             \/ /\ ret' = [ret EXCEPT ![p] = <<>>]
                /\ call' = [call EXCEPT ![p].n = MaxItems(cfg),
                               ![p].raised = (IF cfg = Unavailable THEN {"config"} ELSE {})
                                                \cup {"store"}]
                /\ exc' = [exc EXCEPT ![p] = "io"]
    /\ pc' = [pc EXCEPT ![p] = "serve_entries"]
    /\ UNCHANGED <<rows, seq, wlock, pending>>

\* for title, content, url, published_date in items: ..., lines 125-139; the
\* construction of an entry may raise.
ServeEntries(p) ==
    /\ pc[p] = "serve_entries"
    /\ \/ /\ ret' = [ret EXCEPT ![p] = Entries(ret[p])]
          /\ pc' = [pc EXCEPT ![p] = "serve_respond"]
          /\ UNCHANGED call
       \/ /\ Len(ret[p]) > 0
          /\ call' = [call EXCEPT ![p].raised = @ \cup {"entry"}]
          /\ pc' = [pc EXCEPT ![p] = "serve_except"]
          /\ UNCHANGED ret
    /\ UNCHANGED <<rows, seq, wlock, pending, exc>>

\* return Response(fg.rss_str(), ...), line 141; the serialization may raise.
ServeRespond(p) ==
    /\ pc[p] = "serve_respond"
    /\ \/ /\ ret' = [ret EXCEPT ![p] = Response(200, ret[p], "Latest items")]
          /\ pc' = [pc EXCEPT ![p] = "returned"]
          /\ UNCHANGED call
       \/ /\ call' = [call EXCEPT ![p].raised = @ \cup {"serialize"}]
          /\ pc' = [pc EXCEPT ![p] = "serve_except"]
          /\ UNCHANGED ret
    /\ UNCHANGED <<rows, seq, wlock, pending, exc>>

\* except Exception, lines 143-151: an empty feed is built, and the host of
\* the request is read again, outside any try: when that raises the server
\* answers 500.
ServeExcept(p) ==
    /\ pc[p] = "serve_except"
    /\ ret' = [ret EXCEPT ![p] =
                 IF call[p].badhost
                 THEN Response(500, <<>>, "Internal Server Error")
                 ELSE Response(200, <<>>, "Error generating feed")]
    /\ pc' = [pc EXCEPT ![p] = "returned"]
    /\ UNCHANGED <<rows, seq, wlock, call, pending, exc>>

\* ------------------------------------------- RSSFeed.add_item_to_feed
\* content.find(sub, start): the least index from start on at which sub
\* occurs in s, or -1; indices count from 0.
OccursAt(s, sub, i) ==
    /\ i + Len(sub) <= Len(s)
    /\ \A k \in 1..Len(sub) : s[i + k] = sub[k]
Find(s, sub, start) ==
    LET hits == {i \in start..(Len(s) - Len(sub)) : OccursAt(s, sub, i)}
    IN IF hits = {} THEN -1 ELSE CHOOSE i \in hits : \A j \in hits : i <= j

\* content[a:b]
Slice(s, a, b) == SubSeq(s, a + 1, b)

\* (mutant) the slice without the test of title_end
ExtractTitleUnchecked(c) ==
    LET title_start == Find(c, MARKER, 0) + Len(MARKER)
    IN IF title_start > Len(MARKER)
       THEN LET title_end == Find(c, <<"\n">>, title_start)
            IN IF title_end > 0 THEN Slice(c, title_start, title_end)
               ELSE Slice(c, title_start, Len(c) - 1)
       ELSE DEFAULT_TITLE

\* lines 86-95
ExtractTitle(c) ==
    LET title_start == Find(c, MARKER, 0) + Len(MARKER)
    IN IF title_start > Len(MARKER)
       THEN LET title_end == Find(c, <<"\n">>, title_start)
            IN IF title_end > 0 THEN Slice(c, title_start, title_end)
               ELSE DEFAULT_TITLE
       ELSE DEFAULT_TITLE

\* A content that is not text (None, a number, a list): it has no find() that
\* takes a str, and the scan raises.
NotText == <<"not text">>

\* try: ... except: pass, lines 86-95: a scan that raises leaves the title
\* as it was set at line 86.
TitleOf(c) == IF c = NotText THEN DEFAULT_TITLE ELSE ExtractTitle(c)

\* add_item_to_feed(content, url) derives the title, lines 86-95.
ScanTitle ==
    /\ ev_title = NoTitle
    /\ ev_title' = TitleOf(ev_content)
    /\ UNCHANGED <<store, ev_content, pre, prev, loops>>

\* success = add_rss_item(title, content, url, published_date), lines 98-99
SubmitItem(p) ==
    /\ p = 1
    /\ pc[p] = "idle"
    /\ ev_title # NoTitle
    /\ rows = {}
    /\ \E u \in Urls, t \in Times :
          call' = [call EXCEPT ![p] = [NoCall EXCEPT !.op = "add", !.title = ev_title,
                                        !.content = ev_content, !.url = u,
                                        !.published_date = t]]
    /\ pc' = [pc EXCEPT ![p] = "add_execute"]
    /\ UNCHANGED <<rows, seq, wlock, pending, ret, exc, event, pre, prev, loops>>

\* The caller has its result and goes on to whatever it does next.
Forget(p) ==
    /\ pc[p] = "returned"
    /\ pc' = [pc EXCEPT ![p] = "idle"]
    /\ call' = [call EXCEPT ![p] = NoCall]
    /\ ret' = [ret EXCEPT ![p] = FALSE]
    /\ exc' = [exc EXCEPT ![p] = "none"]
    /\ UNCHANGED <<rows, seq, wlock, pending>>

\* ------------------------------------------- RSSFeed.run_check_queue
\* The events a producer puts on the queue: (content, url, text, buy_url,
\* buy_text), of which the consumer uses content and url; `fields` is the
\* number of fields the event has.
EventContents == {MARKER \o <<"S", "h", "o", "e", "s">> \o <<"\n">>, <<"x">>}
Events == [content : EventContents, url : Urls, fields : {5, 2}]

\* A producer puts an event on the queue.
Put ==
    /\ hist.nput < MaxEvents
    /\ \E e \in Events :
          /\ queue' = Append(queue, e)
          /\ hist' = [hist EXCEPT !.nput = @ + 1,
                                  !.put = IF e.fields = 5 THEN @ \cup {e.url} ELSE @]
    /\ UNCHANGED <<store, event, pre, prev, cpc, processed, taken, spc,
                   max_items, config>>

\* while True: try: processed = 0, lines 40-43
ConsumerStart ==
    /\ cpc = "start"
    /\ processed' = 0
    /\ cpc' = "get"
    /\ hist' = [hist EXCEPT !.drained = FALSE]
    /\ UNCHANGED <<store, event, pre, prev, queue, taken, spc, max_items, config>>

\* self.queue.get_nowait(), line 46: the head of the queue is taken, or the
\* queue is empty and QueueEmpty ends the batch (lines 49-50).
ConsumerGet ==
    /\ cpc = "get"
    /\ IF queue = <<>>
       THEN /\ cpc' = "check"
            /\ UNCHANGED <<queue, taken, hist>>
       ELSE /\ taken' = Head(queue)
            /\ queue' = Tail(queue)
            /\ hist' = [hist EXCEPT !.drained = TRUE]
            /\ cpc' = "unpack"
    /\ UNCHANGED <<store, event, pre, prev, processed, spc, max_items, config>>

\* content, url, text, buy_url, buy_text = ..., line 46, and
\* self.add_item_to_feed(content, url), line 47, up to its call of
\* add_rss_item (lines 84-99).
ConsumerHandle ==
    /\ cpc = "unpack"
    /\ taken.fields = 5
    /\ pc[1] = "idle"
    /\ \E t \in Times :
          call' = [call EXCEPT ![1] = [NoCall EXCEPT !.op = "add",
                                        !.title = TitleOf(taken.content),
                                        !.content = taken.content,
                                        !.url = taken.url,
                                        !.published_date = t]]
    /\ pc' = [pc EXCEPT ![1] = "add_execute"]
    /\ cpc' = "adding"
    /\ UNCHANGED <<rows, seq, wlock, pending, ret, exc, event, pre, prev, queue,
                   processed, taken, spc, max_items, config, hist>>

\* add_rss_item has returned, add_item_to_feed logs its result and returns;
\* processed += 1, line 48, and the inner loop goes round.
ConsumerHandled ==
    /\ cpc = "adding"
    /\ pc[1] = "returned"
    /\ processed' = processed + 1
    /\ taken' = NoItem
    /\ cpc' = "get"
    /\ pc' = [pc EXCEPT ![1] = "idle"]
    /\ call' = [call EXCEPT ![1] = NoCall]
    /\ ret' = [ret EXCEPT ![1] = FALSE]
    /\ exc' = [exc EXCEPT ![1] = "none"]
    /\ UNCHANGED <<rows, seq, wlock, pending, event, pre, prev, queue, spc,
                   max_items, config, hist>>

\* (mutant) the deprecated check_rss_queue, lines 73-82: an error ends the
\* consumer
ConsumerRaiseReturn ==
    /\ cpc = "unpack"
    /\ taken.fields # 5
    /\ taken' = NoItem
    /\ cpc' = "done"
    /\ UNCHANGED <<store, event, pre, prev, queue, processed, spc, max_items,
                   config, hist>>

\* except Exception: logger.error(...); break, lines 51-53: the event taken
\* does not unpack into five names (ValueError).
ConsumerRaise ==
    /\ cpc = "unpack"
    /\ taken.fields # 5
    /\ taken' = NoItem
    /\ cpc' = "check"
    /\ UNCHANGED <<store, event, pre, prev, queue, processed, spc, max_items,
                   config, hist>>

\* (mutant) the backoff after every batch
ConsumerCheckAlwaysSleep ==
    /\ cpc = "check"
    /\ cpc' = "sleep"
    /\ UNCHANGED <<store, event, pre, prev, queue, processed, taken, spc,
                   max_items, config, hist>>

\* if processed == 0: time.sleep(0.1), lines 54-55
ConsumerCheck ==
    /\ cpc = "check"
    /\ cpc' = IF processed = 0 THEN "sleep" ELSE "start"
    /\ UNCHANGED <<store, event, pre, prev, queue, processed, taken, spc,
                   max_items, config, hist>>

\* time.sleep(0.1) is over, line 55
ConsumerSleep ==
    /\ cpc = "sleep"
    /\ cpc' = "start"
    /\ UNCHANGED <<store, event, pre, prev, queue, processed, taken, spc,
                   max_items, config, hist>>

\* ------------------------------------------- RSSFeed.periodic_cleanup
\* What the configuration may hold for rss_max_items: the text of an integer
\* (none is refused: it may be zero or negative), or nothing int() accepts.
Configs == [ok : {TRUE}, value : {-1} \cup Limits] \cup {NoConfig}

\* try: max_items = int(db.get_parameter("rss_max_items"))
\* except Exception: max_items = 100, lines 65-68
ReadMaxItems(c) == IF c.ok THEN c.value ELSE DefaultMaxItems

\* An operator changes rss_max_items.
SetConfig ==
    /\ \E c \in Configs \ {config} :
          /\ config' = c
          /\ hist' = [hist EXCEPT !.cfgs = IF spc \in {"read", "trim"}
                                           THEN @ \cup {c} ELSE @]
    /\ UNCHANGED <<store, event, pre, prev, queue, cpc, processed, taken, spc,
                   max_items>>

\* time.sleep(3600) is over, line 63
SchedSleep ==
    /\ spc = "sleep"
    /\ spc' = "read"
    /\ hist' = [hist EXCEPT !.slept = TRUE, !.cfgs = {config}]
    /\ UNCHANGED <<store, event, pre, prev, queue, cpc, processed, taken,
                   max_items, config>>

\* (mutant) max_items as the configuration held it when the thread started
SchedReadAtStartup ==
    /\ spc = "read"
    /\ max_items' = ReadMaxItems(NoConfig)
    /\ spc' = "trim"
    /\ UNCHANGED <<store, event, pre, prev, queue, cpc, processed, taken,
                   config, hist>>

\* max_items is read from the configuration, lines 65-68
SchedRead ==
    /\ spc = "read"
    /\ max_items' = ReadMaxItems(config)
    /\ spc' = "trim"
    /\ UNCHANGED <<store, event, pre, prev, queue, cpc, processed, taken,
                   config, hist>>

\* cleanup_old_rss_items(max_items * 10) is called, line 69, while no other
\* operation on the store runs.
SchedTrim ==
    /\ spc = "trim"
    /\ \A q \in Procs : pc[q] = "idle"
    /\ call' = [call EXCEPT ![Trimmer] = [NoCall EXCEPT !.op = "trim",
                                            !.n = max_items * BufferFactor]]
    /\ pc' = [pc EXCEPT ![Trimmer] = "trim_count"]
    /\ spc' = "trimming"
    /\ pre' = rows
    /\ hist' = [hist EXCEPT !.slept = FALSE, !.cfgs = {}]
    /\ UNCHANGED <<rows, seq, wlock, pending, ret, exc, event, prev, queue, cpc,
                   processed, taken, max_items, config>>

\* cleanup_old_rss_items has returned and the loop goes round, lines 61-63.
SchedDone ==
    /\ spc = "trimming"
    /\ pc[Trimmer] = "returned"
    /\ spc' = "sleep"
    /\ pc' = [pc EXCEPT ![Trimmer] = "idle"]
    /\ call' = [call EXCEPT ![Trimmer] = NoCall]
    /\ exc' = [exc EXCEPT ![Trimmer] = "none"]
    /\ UNCHANGED <<rows, seq, wlock, pending, ret, event, pre, prev, queue, cpc,
                   processed, taken, max_items, config, hist>>

\* ------------------------------------------------------ specifications
\* The threads that write to the store interleave freely and no history is
\* kept. (A read is one step that changes nothing of the store.)
Conc(A) == A /\ UNCHANGED <<event, pre, prev, loops>>

Next ==
    \E p \in Procs :
        \/ Conc(AddCall(p)) \/ Conc(AddExecute(p)) \/ Conc(AddCommit(p))
        \/ Conc(AddRaise(p))
        \/ Conc(TrimCall(p)) \/ Conc(TrimCount(p)) \/ Conc(TrimDelete(p))
        \/ Conc(TrimCommit(p)) \/ Conc(TrimRaise(p))
        \/ Conc(Forget(p))

Spec == Init /\ [][Next]_vars

\* One operation at a time: a process moves only while every other is idle.
\* Such a run remembers the table as it was when the operation was called.
OneAtATime(p, A) ==
    /\ \A q \in Procs \ {p} : pc[q] = "idle"
    /\ A
    /\ pre' = IF pc[p] = "idle" THEN rows ELSE pre
    /\ UNCHANGED <<event, prev, loops>>

SeqNext ==
    \E p \in Procs :
        \/ OneAtATime(p, AddCall(p)) \/ OneAtATime(p, AddExecute(p))
        \/ OneAtATime(p, AddCommit(p)) \/ OneAtATime(p, AddRaise(p))
        \/ OneAtATime(p, TrimCall(p)) \/ OneAtATime(p, TrimCount(p))
        \/ OneAtATime(p, TrimDelete(p)) \/ OneAtATime(p, TrimCommit(p))
        \/ OneAtATime(p, TrimRaise(p))
        \/ OneAtATime(p, ListItems(p)) \/ OneAtATime(p, CountItems(p))
        \/ OneAtATime(p, ReadRaise(p))
        \/ OneAtATime(p, ServeCall(p)) \/ OneAtATime(p, ServeHead(p))
        \/ OneAtATime(p, ServeItems(p)) \/ OneAtATime(p, ServeEntries(p))
        \/ OneAtATime(p, ServeRespond(p)) \/ OneAtATime(p, ServeExcept(p))
        \/ OneAtATime(p, Forget(p))

SeqSpec == Init /\ [][SeqNext]_vars

\* One caller adds again and again, starting from a table of at most one
\* row. Such a run remembers the table at the call, and whether the call
\* before this one was an add of an absent url that raised nothing.
Again(A) ==
    /\ A
    /\ pre' = IF pc[1] = "idle" THEN rows ELSE pre
    /\ prev' = IF pc[1] # "returned" THEN prev
               ELSE IF ~UrlExists(pre, call[1].url) /\ exc[1] = "none"
                    THEN [op |-> "add", url |-> call[1].url, ok |-> ret[1]]
                    ELSE NoPrev
    /\ UNCHANGED <<event, loops>>

RepeatNext ==
    \/ Again(AddCall(1)) \/ Again(AddExecute(1)) \/ Again(AddCommit(1))
    \/ Again(AddRaise(1)) \/ Again(Forget(1))

\* Concurrent ingestion: every adder makes one call, all at once, against a
\* table of at most one row.
InitialTables ==
    {{}} \cup {{Row(1, pl[1], pl[2], u, t)} : pl \in Payloads, u \in Urls, t \in Times}

RaceInit ==
    /\ rows \in InitialTables
    /\ seq = Cardinality(rows)
    /\ pre = rows
    /\ wlock = NoProc
    /\ pc = [p \in Procs |-> "idle"]
    /\ call = [p \in Procs |-> NoCall]
    /\ pending = [p \in Procs |-> NoChange]
    /\ ret = [p \in Procs |-> FALSE]
    /\ exc = [p \in Procs |-> "none"]
    /\ ev_content = <<>>
    /\ ev_title = NoTitle
    /\ prev = NoPrev
    /\ LoopsInit

RaceNext ==
    \E p \in Adders :
        \/ Conc(AddCall(p)) \/ Conc(AddExecute(p)) \/ Conc(AddCommit(p))
        \/ Conc(AddRaise(p))

RaceSpec == RaceInit /\ [][RaceNext]_vars

RepeatSpec == RaceInit /\ [][RepeatNext]_vars

\* The consumer handles one event: it derives the title and adds the item.
EventInit ==
    /\ ev_content \in Contents \cup {NotText}
    /\ ev_title = NoTitle
    /\ rows = {}
    /\ seq = 0
    /\ wlock = NoProc
    /\ pc = [p \in Procs |-> "idle"]
    /\ call = [p \in Procs |-> NoCall]
    /\ pending = [p \in Procs |-> NoChange]
    /\ ret = [p \in Procs |-> FALSE]
    /\ exc = [p \in Procs |-> "none"]
    /\ pre = {}
    /\ prev = NoPrev
    /\ LoopsInit

EventNext ==
    \/ ScanTitle
    \/ SubmitItem(1)
    \/ Conc(AddExecute(1))
    \/ Conc(AddCommit(1))
    \/ Conc(AddRaise(1))

EventSpec == EventInit /\ [][EventNext]_vars

\* The consumer thread and a producer: the consumer is the only caller of the
\* store, and the store may fail under it.
ConsumerNext ==
    \/ Put
    \/ ConsumerStart
    \/ ConsumerGet
    \/ ConsumerHandle
    \/ Conc(AddExecute(1))
    \/ Conc(AddCommit(1))
    \/ Conc(AddRaise(1))
    \/ ConsumerHandled
    \/ ConsumerRaise
    \/ ConsumerCheck
    \/ ConsumerSleep

\* The consumer thread is scheduled again and again: a step it can take, it
\* takes.
ConsumerFair ==
    /\ WF_vars(ConsumerStart) /\ WF_vars(ConsumerGet) /\ WF_vars(ConsumerHandle)
    /\ WF_vars(Conc(AddExecute(1)) \/ Conc(AddCommit(1)))
    /\ WF_vars(ConsumerHandled) /\ WF_vars(ConsumerRaise)
    /\ WF_vars(ConsumerCheck) /\ WF_vars(ConsumerSleep)

ConsumerSpec == Init /\ [][ConsumerNext]_vars /\ ConsumerFair

\* The scheduler thread and an operator who changes the configuration, over
\* a table of at most one row that nothing else touches.
SchedNext ==
    \/ SetConfig
    \/ SchedSleep
    \/ SchedRead
    \/ SchedTrim
    \/ OneAtATime(Trimmer, TrimCount(Trimmer))
    \/ OneAtATime(Trimmer, TrimDelete(Trimmer))
    \/ OneAtATime(Trimmer, TrimCommit(Trimmer))
    \/ OneAtATime(Trimmer, TrimRaise(Trimmer))
    \/ SchedDone

SchedSpec == RaceInit /\ [][SchedNext]_vars

\* A caller of add and a caller of trim, one operation at a time. Such a run
\* remembers the rows that a trim deleted.
Evicting(p, A) ==
    /\ \A q \in Procs \ {p} : pc[q] = "idle"
    /\ A
    /\ hist' = [hist EXCEPT !.evicted = @ \cup
                    {[id |-> r.id, url |-> r.url, published_date |-> r.published_date] :
                         r \in rows \ rows'}]
    /\ UNCHANGED <<event, pre, prev, queue, cpc, processed, taken, spc,
                   max_items, config>>

EvictNext ==
    \/ Evicting(1, AddCall(1))
    \/ Evicting(1, AddExecute(1))
    \/ Evicting(1, AddCommit(1))
    \/ Evicting(1, AddRaise(1))
    \/ Evicting(1, Forget(1))
    \/ Evicting(Trimmer, TrimCall(Trimmer))
    \/ Evicting(Trimmer, TrimCount(Trimmer))
    \/ Evicting(Trimmer, TrimDelete(Trimmer))
    \/ Evicting(Trimmer, TrimCommit(Trimmer))
    \/ Evicting(Trimmer, TrimRaise(Trimmer))
    \/ Evicting(Trimmer, Forget(Trimmer))

EvictSpec == Init /\ [][EvictNext]_vars

\* ----------------------------------------------------------- properties
WithUrl(table, u) == {r \in table : r.url = u}

\* C1 (RepeatSpec): when add is called for a url that no row has, and called
\* again for the same url right after, and neither call raised, the first
\* call returned True, the second returned False, and the table holds
\* exactly one row with that url.
C1_AddTwice ==
    (/\ pc[1] = "returned"
     /\ exc[1] = "none"
     /\ prev.op = "add"
     /\ prev.url = call[1].url)
    => /\ prev.ok = TRUE
       /\ ret[1] = FALSE
       /\ Cardinality(WithUrl(rows, call[1].url)) = 1

\* The second of two successive adds of one url has returned, into a table
\* that held another row from the start.
C1_Witness ==
    /\ pc[1] = "returned"
    /\ exc[1] = "none"
    /\ prev.op = "add"
    /\ prev.url = call[1].url
    /\ Cardinality(rows) = 2

\* C2 (Spec): whatever the interleaving of the adds and the trims, no two
\* rows of the table have the same url.
C2_UrlUnique ==
    \A r1 \in rows, r2 \in rows : r1.url = r2.url => r1 = r2

\* Two adds of one url have met, one inserted and one was ignored, while a
\* trim is between its count and its deletion.
C2_Witness ==
    \E p \in Adders, q \in Adders :
        /\ pc[p] = "returned" /\ ret[p] = TRUE
        /\ pc[q] = "returned" /\ ret[q] = FALSE /\ exc[q] = "none"
        /\ call[p].url = call[q].url
        /\ pc[Trimmer] = "trim_delete"

\* C3 (RaceSpec): when the adds that were called are all adds of one url,
\* which no row had at the start, and all have returned, none after an I/O
\* failure, then the table holds exactly one row with that url and exactly
\* one of the calls returned True (the others returned False, at the
\* duplicate or at the lock).
Called == {p \in Adders : pc[p] # "idle"}
C3_ConcurrentAdds ==
    \A u \in Urls :
        (/\ Called # {}
         /\ ~UrlExists(pre, u)
         /\ \A p \in Called : pc[p] = "returned" /\ call[p].url = u /\ exc[p] # "io")
        => /\ Cardinality(WithUrl(rows, u)) = 1
           /\ Cardinality({p \in Called : ret[p] = TRUE}) = 1

\* Every adder has added the same url, and one of them found the table
\* locked by another: the calls overlapped.
C3_Witness ==
    \E u \in Urls :
        /\ ~UrlExists(pre, u)
        /\ \A p \in Adders : pc[p] = "returned" /\ call[p].url = u /\ exc[p] # "io"
        /\ \E p \in Adders : exc[p] = "locked"

\* C4 (SeqSpec): over a table of pairwise distinct published_date, list(N)
\* with N >= 0 returns min(N, count) items, each the columns of a row, in
\* strictly descending published_date, and no row left out is more recent
\* than a row returned.
DistinctDates(table) ==
    \A r1 \in table, r2 \in table : r1.published_date = r2.published_date => r1 = r2
C4_ListOrdered ==
    (/\ pc[Reader] = "returned"
     /\ call[Reader].op = "list"
     /\ exc[Reader] = "none"
     /\ DistinctDates(rows))
    => LET out == ret[Reader]
           N == call[Reader].n
       IN /\ Len(out) <= N
          /\ Len(out) = Min(N, Cardinality(rows))
          /\ \A i \in 1..Len(out) : \E r \in rows : out[i] = Columns(r)
          /\ \A i \in 1..Len(out), j \in 1..Len(out) : i < j => out[i][4] > out[j][4]
          /\ \A r \in rows :
                (\A i \in 1..Len(out) : out[i] # Columns(r))
                => \A i \in 1..Len(out) : r.published_date < out[i][4]

\* A list that had to order and to cut: it returned fewer rows than there are.
C4_Witness ==
    /\ pc[Reader] = "returned"
    /\ call[Reader].op = "list"
    /\ exc[Reader] = "none"
    /\ DistinctDates(rows)
    /\ Len(ret[Reader]) >= 1
    /\ Len(ret[Reader]) < Cardinality(rows)

\* C5 (SeqSpec): when trim(maxCount) has returned without a failure and
\* nothing else ran, the table holds min(maxCount, count before) rows, all of
\* them rows it held before, and no row removed is more recent than a row
\* kept.
C5_TrimKeepsNewest ==
    (/\ pc[Trimmer] = "returned"
     /\ exc[Trimmer] = "none")
    => /\ Cardinality(rows) <= call[Trimmer].n
       /\ rows \subseteq pre
       /\ Cardinality(rows) = Min(call[Trimmer].n, Cardinality(pre))
       /\ \A k \in rows, d \in pre \ rows : d.published_date <= k.published_date

\* A trim that removed a row and kept one.
C5_Witness ==
    /\ pc[Trimmer] = "returned"
    /\ exc[Trimmer] = "none"
    /\ rows # {}
    /\ pre \ rows # {}

\* C6 (EventSpec): when the content holds the marker, at any place, and a
\* line break after it, the title stored with the content is the text from
\* the end of the (first) marker to the first line break after it.
C6_TitleBetween ==
    \A r \in rows :
        \A i \in 0..Len(r.content), j \in 0..Len(r.content) :
            (/\ OccursAt(r.content, MARKER, i)
             /\ \A h \in 0..(i - 1) : ~OccursAt(r.content, MARKER, h)
             /\ j >= i + Len(MARKER)
             /\ OccursAt(r.content, <<"\n">>, j)
             /\ \A h \in (i + Len(MARKER))..(j - 1) : ~OccursAt(r.content, <<"\n">>, h))
            => r.title = [k \in 1..(j - i - Len(MARKER)) |-> r.content[i + Len(MARKER) + k]]

\* C7 (SeqSpec): a render that succeeded, with the store read, holds the
\* entries of a list(N) of the table, N the display ceiling: min(N, count)
\* entries, none for an empty table, each with id = link = the url of a row
\* and the title of that row, and no two with the same link.
Succeeded(p) ==
    /\ pc[p] = "returned"
    /\ call[p].op = "serve"
    /\ ret[p].status = 200
    /\ ret[p].description = "Latest items"
    /\ exc[p] = "none"
C7_FeedEntries ==
    Succeeded(Reader)
    => LET out == ret[Reader].entries
           N == call[Reader].n
       IN /\ Len(out) = Min(N, Cardinality(rows))
          /\ \E items \in SelectItems(rows, N) :
                /\ Len(items) = Len(out)
                /\ \A i \in 1..Len(out) :
                      /\ out[i].id = items[i][3]
                      /\ out[i].link = items[i][3]
                      /\ out[i].title = items[i][1]
          /\ \A i \in 1..Len(out) :
                \E r \in rows : r.url = out[i].link /\ r.title = out[i].title
          /\ \A i \in 1..Len(out), j \in 1..Len(out) : out[i].link = out[j].link => i = j

\* A render that shows some rows of the table and not all.
C7_Witness ==
    /\ Succeeded(Reader)
    /\ Len(ret[Reader].entries) >= 1
    /\ Len(ret[Reader].entries) < Cardinality(rows)

\* C8 (SeqSpec): every request ends in a 200 response, and in one without
\* entries when a step of the rendering raised.
C8_NeverFails ==
    (pc[Reader] = "returned" /\ call[Reader].op = "serve")
    => /\ ret[Reader].status = 200
       /\ call[Reader].raised # {} => Len(ret[Reader].entries) = 0

\* C9 (SeqSpec): an add, list, count or trim in which the store failed has
\* returned all the same, add False, list the empty sequence, count 0, and
\* the table is the one it was called on.
StoreOps == {"add", "list", "count", "trim"}
C9_SafeDefaults ==
    \A p \in Procs :
        (pc[p] = "returned" /\ call[p].op \in StoreOps /\ exc[p] # "none")
        => /\ rows = pre
           /\ call[p].op = "add" => ret[p] = FALSE
           /\ call[p].op = "list" => ret[p] = <<>>
           /\ call[p].op = "count" => ret[p] = 0

\* An operation failed on a table that holds rows.
C9_Witness ==
    \E p \in Procs :
        /\ pc[p] = "returned"
        /\ call[p].op \in StoreOps
        /\ exc[p] # "none"
        /\ rows # {}

\* C10 (Spec): the table does not change between the count of a trim and its
\* deletion, and when a trim(maxCount) commits the table holds at most
\* maxCount rows.
C10_TrimAtomic ==
    [][ /\ pc[Trimmer] = "trim_delete" => rows' = rows
        /\ (pc[Trimmer] = "trim_commit" /\ pc'[Trimmer] = "returned"
            /\ exc'[Trimmer] = "none")
           => Cardinality(rows') <= call[Trimmer].n ]_vars

\* C11 (ConsumerSpec): no event is lost: every well-formed event that was put
\* on the queue is still on the queue, or in the hands of the consumer, or an
\* item with its url is in the store; an event whose add failed is one of the
\* first two, to be tried again.
InQueue(u) == \E i \in 1..Len(queue) : queue[i].url = u /\ queue[i].fields = 5
C11_NoEventLost ==
    \A u \in hist.put :
        \/ InQueue(u)
        \/ taken.url = u
        \/ UrlExists(rows, u)

\* C12 (ConsumerSpec): at the end of an iteration the consumer sleeps the idle
\* delay if and only if the iteration took no event from the queue.
C12_IdleBackoff ==
    [][ (cpc = "check" /\ cpc' # "check")
        => (cpc' = "sleep" <=> ~hist.drained) ]_vars

\* C13 (ConsumerSpec): when the handling of a taken event raises, the batch
\* ends there with the queue as it is; the queue only ever loses its head or
\* gains a tail, so the events left keep their order; the consumer never
\* terminates; and whatever is on the queue is taken later.
C13_ConsumerSurvives ==
    /\ [][ (cpc = "unpack" /\ taken.fields # 5 /\ cpc' # cpc)
           => (cpc' = "check" /\ queue' = queue) ]_vars
    /\ [][ \/ queue' = queue
           \/ queue # <<>> /\ queue' = Tail(queue)
           \/ \E e \in Events : queue' = Append(queue, e) ]_vars
    /\ [](cpc \in {"start", "get", "unpack", "adding", "check", "sleep"})
    /\ (queue # <<>>) ~> (queue = <<>>)

\* The handling of the first event of a batch raised while another event
\* waited on the queue, and the batch has ended.
C13_Witness ==
    /\ cpc = "check"
    /\ processed = 0
    /\ hist.drained
    /\ queue # <<>>

\* C14 (SchedSpec): the scheduler calls trim only after it slept its interval
\* since the trim before, and with 10 times the display ceiling that the
\* configuration held in this cycle, after the sleep (10 times 100 when the
\* configuration holds nothing int() accepts), whatever it held before.
C14_LiveConfig ==
    [][ (spc = "trim" /\ spc' = "trimming")
        => /\ hist.slept
           /\ call'[Trimmer].op = "trim"
           /\ \E c \in hist.cfgs :
                 call'[Trimmer].n = 10 * (IF c.ok THEN c.value ELSE 100) ]_vars

\* The scheduler trims with 10 times a ceiling that an operator set after
\* the thread had started.
C14_Witness ==
    /\ spc = "trimming"
    /\ call[Trimmer].op = "trim"
    /\ config.ok
    /\ config.value = 2
    /\ call[Trimmer].n = 20

\* C15 (Spec): in every step, of whatever operation and interleaving, a row
\* that stays in the table stays as it is (id, title, content, url and
\* published_date), and a step of an add whose url some row has leaves the
\* table and the id counter as they are.
C15_Immutable ==
    [][ /\ \A r \in rows, r2 \in rows' : r.id = r2.id => r = r2
        /\ \A p \in Adders :
              (/\ pc[p] \in {"add_execute", "add_commit"}
               /\ pc'[p] # pc[p]
               /\ UrlExists(rows, call[p].url))
              => (rows' = rows /\ seq' = seq) ]_vars

\* An add of a url that a row has was ignored while the other adder is in
\* an add of another url.
C15_Witness ==
    \E p \in Adders, q \in Adders :
        /\ pc[p] = "returned" /\ ret[p] = FALSE /\ exc[p] = "none"
        /\ UrlExists(rows, call[p].url)
        /\ pc[q] = "add_commit"
        /\ call[q].url # call[p].url

\* C16 (RaceSpec): with no trim running, an add that returned False returned
\* into a table that holds a row with its url, and an add that returned True
\* put that row there.
C16_FalseMeansExists ==
    \A p \in Adders :
        (pc[p] = "returned" /\ call[p].op = "add")
        => /\ ret[p] = FALSE => UrlExists(rows, call[p].url)
           /\ ret[p] = TRUE => UrlExists(rows \ pre, call[p].url)

\* C17 (EventSpec): for every content, text or not, empty or not, the scan
\* ends with a title and the event goes to add with that title and its
\* content; when the content holds no marker, or no line break after the
\* marker, the title derived, passed to add and stored is 'New Vinted Item'.
Lacks(c) ==
    \A i \in 0..Len(c), j \in 0..(Len(c) - 1) :
        ~(OccursAt(c, MARKER, i) /\ j >= i + Len(MARKER) /\ c[j + 1] = "\n")
C17_TitleFallback ==
    /\ (ev_title # NoTitle /\ Lacks(ev_content)) => ev_title = DEFAULT_TITLE
    /\ pc[1] \in {"add_execute", "add_commit"}
       => (call[1].content = ev_content /\ call[1].title = ev_title
           /\ ev_title # NoTitle)
    /\ \A r \in rows :
          /\ r.content = ev_content
          /\ Lacks(r.content) => r.title = DEFAULT_TITLE

\* An item is stored whose content holds the marker, past its start, and no
\* line break after it.
C17_Witness ==
    \E r \in rows :
        /\ \E i \in 1..Len(r.content) : OccursAt(r.content, MARKER, i)
        /\ Len(r.content) > 1 + Len(MARKER)
        /\ Lacks(r.content)
        /\ r.title = DEFAULT_TITLE

\* C18 (SchedSpec): when a trim of the scheduler, computed from the display
\* ceiling N, has returned without a failure, its ceiling is larger than N and
\* list(N) returns what it returned right before the trim.
C18_TrimKeepsFeed ==
    (spc = "trimming" /\ pc[Trimmer] = "returned" /\ exc[Trimmer] = "none")
    => /\ call[Trimmer].n > max_items
       /\ SelectItems(rows, max_items) = SelectItems(pre, max_items)

\* C19 (SeqSpec): a trim(maxCount) called on a table of at most maxCount rows
\* (of exactly maxCount rows, of no row) returns with the table as it was,
\* every row and every field of it.
C19_TrimNoOp ==
    (/\ pc[Trimmer] = "returned"
     /\ call[Trimmer].op = "trim"
     /\ Cardinality(pre) <= call[Trimmer].n)
    => rows = pre

\* A trim has returned that was called on a table of exactly maxCount rows,
\* maxCount above zero.
C19_Witness ==
    /\ pc[Trimmer] = "returned"
    /\ call[Trimmer].op = "trim"
    /\ exc[Trimmer] = "none"
    /\ call[Trimmer].n > 0
    /\ Cardinality(pre) = call[Trimmer].n
    /\ rows = pre

\* C20 (EvictSpec): an add of a url that a trim deleted and no row has now,
\* when the store does not fail, is not ignored: it returns True and puts a
\* new row in the table, with that url, the published_date of this call and
\* an id that no row had before, deleted or not.
Evicted(u) == \E e \in hist.evicted : e.url = u
C20_ReAdd ==
    [][ /\ (/\ pc[1] = "add_execute" /\ pc'[1] # pc[1] /\ exc'[1] = "none"
            /\ Evicted(call[1].url) /\ ~UrlExists(rows, call[1].url))
           => pc'[1] = "add_commit"
        /\ (/\ pc[1] = "add_commit" /\ pc'[1] = "returned" /\ exc'[1] = "none"
            /\ Evicted(call[1].url))
           => /\ ret'[1] = TRUE
              /\ \E r \in rows' \ rows :
                    /\ r.url = call[1].url
                    /\ r.published_date = call[1].published_date
                    /\ \A o \in rows : r.id > o.id
                    /\ \A o \in hist.evicted : r.id > o.id ]_vars

\* A url is in the table again, after a trim had deleted the row that had it:
\* the add returned True and the new row has another published_date.
C20_Witness ==
    /\ pc[1] = "returned" /\ call[1].op = "add" /\ ret[1] = TRUE
    /\ \E r \in rows, e \in hist.evicted :
          /\ r.url = call[1].url
          /\ e.url = r.url
          /\ e.published_date # r.published_date
          /\ e.id < r.id

=============================================================================
